---- MODULE Spec2Model ----
(***************************************************************************)
(* The CHIP-8 interpreter core of src/src/cpu.cpp as a state machine: the  *)
(* fields of class cpu are the variables, cpu::init, cpu::loadRom,         *)
(* cpu::executeCycle, cpu::keyDown, cpu::keyUp and cpu::timers are the     *)
(* actions.  A step is computed on a record holding the fields, statement  *)
(* by statement as the C++ does, and the action assigns the record back.   *)
(* Each specification runs the machine on one family of programs.          *)
(***************************************************************************)
EXTENDS Integers, Sequences, FiniteSets, TLC

(* -------- sizes of the arrays of class cpu (declared in cpu.h) ---------- *)
MemSize == 4096
StackSize == 16
GfxWidth == 64
GfxHeight == 32
NumKeys == 16
RomStart == 512
FontSize == 80

(* -------- bounds of the model ------------------------------------------ *)
\* register operands tried by the arithmetic programs: 0..MaxVal and the top of the byte range
MaxVal == 2
\* keys the input source presses and releases: 0..MaxKeyId and key 15
MaxKeyId == 0
\* deepest nesting of the call/return programs beyond the stack capacity
MaxExtraCalls == 1
\* largest value the timer programs put in the two timers
MaxTicks == 3

VARIABLES pc, opcode, I, sp, memory, stack, gfx, key, prevKeys, V,
          delay_timer, sound_timer, breakIPF, draw, running,
          romResult, tone, oob, pre

vars == <<pc, opcode, I, sp, memory, stack, gfx, key, prevKeys, V,
          delay_timer, sound_timer, breakIPF, draw, running,
          romResult, tone, oob, pre>>

(* -------- machine arithmetic ------------------------------------------- *)
RECURSIVE BitAnd(_, _)
BitAnd(a, b) ==
  IF a = 0 \/ b = 0 THEN 0
  ELSE (a % 2) * (b % 2) + 2 * BitAnd(a \div 2, b \div 2)

RECURSIVE BitOr(_, _)
BitOr(a, b) ==
  IF a = 0 THEN b
  ELSE IF b = 0 THEN a
  ELSE (IF a % 2 = 1 \/ b % 2 = 1 THEN 1 ELSE 0) + 2 * BitOr(a \div 2, b \div 2)

RECURSIVE BitXor(_, _)
BitXor(a, b) ==
  IF a = 0 THEN b
  ELSE IF b = 0 THEN a
  ELSE ((a + b) % 2) + 2 * BitXor(a \div 2, b \div 2)

U8(n) == n % 256
U16(n) == n % 65536

(* -------- the nibble macros -------------------------------------------- *)
OP_X(op) == BitAnd(op, 3840) \div 256
OP_Y(op) == BitAnd(op, 240) \div 16
OP_N(op) == BitAnd(op, 15)
OP_NN(op) == BitAnd(op, 255)
OP_NNN(op) == BitAnd(op, 4095)

chip8_fontset ==
  << 240, 144, 144, 144, 240,   32,  96,  32,  32, 112,
     240,  16, 240, 128, 240,  240,  16, 240,  16, 240,
     144, 144, 240,  16,  16,  240, 128, 240,  16, 240,
     240, 128, 240, 144, 240,  240,  16,  32,  64,  64,
     240, 144, 240, 144, 240,  240, 144, 240,  16, 240,
     240, 144, 240, 144, 144,  224, 144, 224, 144, 224,
     240, 128, 128, 128, 240,  224, 144, 144, 144, 224,
     240, 128, 240, 128, 240,  240, 128, 240, 128, 128 >>

(* -------- the object as a record --------------------------------------- *)
cpu ==
  [pc |-> pc, opcode |-> opcode, I |-> I, sp |-> sp, memory |-> memory,
   stack |-> stack, gfx |-> gfx, key |-> key, prevKeys |-> prevKeys, V |-> V,
   delay_timer |-> delay_timer, sound_timer |-> sound_timer,
   breakIPF |-> breakIPF, draw |-> draw, running |-> running, oob |-> oob]

\* An access outside an array is undefined behaviour: a read yields a byte
\* the model draws from GarbageBytes (g[0] at even, g[1] at odd addresses),
\* a write does not reach the array, and oob records which array was missed.
GarbageBytes == {0, 255}
Garbage == [0..1 -> GarbageBytes]
NoGarbage == [i \in 0..1 |-> 0]

InMem(a) == a >= 0 /\ a < MemSize
ReadMem(s, a, g) == IF InMem(a) THEN s.memory[a] ELSE g[a % 2]
Missed(s, what) == [s EXCEPT !.oob = s.oob \cup {what}]
WriteMem(s, a, b) ==
  IF InMem(a) THEN [s EXCEPT !.memory[a] = b] ELSE Missed(s, "memory")

(* -------- cpu::init ---------------------------------------------------- *)
initState(s) ==
  [s EXCEPT
     !.pc = RomStart, !.opcode = 0, !.I = 0, !.sp = 0,
     !.memory = [a \in 0..(MemSize - 1) |->
                   IF a < FontSize THEN chip8_fontset[a + 1] ELSE 0],
     !.stack = [i \in 0..(StackSize - 1) |-> 0],
     !.gfx = [c \in 0..(GfxWidth * GfxHeight - 1) |-> 0],
     !.key = [k \in 0..(NumKeys - 1) |-> 0],
     !.prevKeys = [k \in 0..(NumKeys - 1) |-> 0],
     !.breakIPF = FALSE, !.draw = FALSE, !.running = TRUE]

(* -------- cpu::executeCycle: fetch ------------------------------------- *)
SetV(s, r, b) == [s EXCEPT !.V[r] = b]

fetch(s, g) ==
  LET hi == ReadMem(s, s.pc, g)
      lo == ReadMem(s, s.pc + 1, g)
      t  == IF InMem(s.pc) /\ InMem(s.pc + 1) THEN s ELSE Missed(s, "memory")
  IN  [t EXCEPT !.breakIPF = FALSE,
                !.opcode = BitOr(hi * 256, lo),
                !.pc = U16(s.pc + 2)]

(* -------- 0x0 family: switch (opcode & 0x000F) ------------------------- *)
ClearScreen(s) ==
  [s EXCEPT !.gfx = [c \in 0..(GfxWidth * GfxHeight - 1) |-> 0],
            !.breakIPF = TRUE]

Return(s, g) ==
  LET nsp == U16(s.sp - 1)
      inside == nsp < StackSize
      t == IF inside THEN s ELSE Missed(s, "stack")
  IN  [t EXCEPT !.sp = nsp,
                !.pc = IF inside THEN s.stack[nsp] ELSE g[0] * 256 + g[1]]

Op0(s, g) ==
  CASE BitAnd(s.opcode, 15) = 0  -> ClearScreen(s)
    [] BitAnd(s.opcode, 15) = 14 -> Return(s, g)
    [] OTHER -> s

(* -------- 1NNN, 2NNN, skips, loads ------------------------------------- *)
Jump(s) == [s EXCEPT !.pc = OP_NNN(s.opcode)]

\* 2NNN pushing the address of the call itself instead of the next one
Call_PushOwnAddress(s) ==
  LET t == IF s.sp < StackSize THEN [s EXCEPT !.stack[s.sp] = U16(s.pc - 2)]
           ELSE Missed(s, "stack")
  IN  [t EXCEPT !.sp = U16(s.sp + 1), !.pc = OP_NNN(s.opcode)]

Call(s) ==
  LET t == IF s.sp < StackSize THEN [s EXCEPT !.stack[s.sp] = s.pc]
           ELSE Missed(s, "stack")
  IN  [t EXCEPT !.sp = U16(s.sp + 1), !.pc = OP_NNN(s.opcode)]

SkipIf(s, cond) == IF cond THEN [s EXCEPT !.pc = U16(s.pc + 2)] ELSE s

Op3(s) == SkipIf(s, s.V[OP_X(s.opcode)] = OP_NN(s.opcode))
Op4(s) == SkipIf(s, s.V[OP_X(s.opcode)] # OP_NN(s.opcode))
Op5(s) == SkipIf(s, s.V[OP_X(s.opcode)] = s.V[OP_Y(s.opcode)])
Op6(s) == SetV(s, OP_X(s.opcode), OP_NN(s.opcode))
Op7(s) == SetV(s, OP_X(s.opcode), U8(s.V[OP_X(s.opcode)] + OP_NN(s.opcode)))
Op9(s) == SkipIf(s, s.V[OP_X(s.opcode)] # s.V[OP_Y(s.opcode)])
OpA(s) == [s EXCEPT !.I = OP_NNN(s.opcode)]
OpB(s) == [s EXCEPT !.pc = U16(OP_NNN(s.opcode) + s.V[0])]
OpC(s, rnd) == SetV(s, OP_X(s.opcode), BitAnd(rnd % 256, OP_NN(s.opcode)))

(* -------- 0x8 family: switch (opcode & 0x000F) ------------------------- *)
Op8XY0(s, x, y) == SetV(s, x, s.V[y])
Op8XY1(s, x, y) == SetV(SetV(s, x, BitOr(s.V[x], s.V[y])), 15, 0)
Op8XY2(s, x, y) == SetV(SetV(s, x, BitAnd(s.V[x], s.V[y])), 15, 0)
Op8XY3(s, x, y) == SetV(SetV(s, x, BitXor(s.V[x], s.V[y])), 15, 0)

Op8XY4(s, x, y) ==
  LET sum == s.V[x] + s.V[y]
  IN  SetV(SetV(s, x, U8(s.V[x] + s.V[y])), 15, IF sum > 255 THEN 1 ELSE 0)

\* 8XY5 with > in place of >=: equal operands would report a borrow
Op8XY5_Strict(s, x, y) ==
  LET temp == IF s.V[x] > s.V[y] THEN 1 ELSE 0
  IN  SetV(SetV(s, x, U8(s.V[x] - s.V[y])), 15, temp)

Op8XY5(s, x, y) ==
  LET temp == IF s.V[x] >= s.V[y] THEN 1 ELSE 0
  IN  SetV(SetV(s, x, U8(s.V[x] - s.V[y])), 15, temp)

Op8XY6(s, x, y) ==
  LET temp == BitAnd(s.V[x], 1)
      t1 == SetV(s, x, s.V[y])
      t2 == SetV(t1, x, t1.V[x] \div 2)
  IN  SetV(t2, 15, temp)

Op8XY7(s, x, y) ==
  LET temp == IF s.V[x] <= s.V[y] THEN 1 ELSE 0
  IN  SetV(SetV(s, x, U8(s.V[y] - s.V[x])), 15, temp)

Op8XYE(s, x, y) ==
  LET t1 == SetV(s, x, s.V[y])
      temp == BitAnd(BitAnd(t1.V[x], 128) \div 128, 1)
      t2 == SetV(t1, x, U8(t1.V[x] * 2))
  IN  SetV(t2, 15, temp)

Op8(s) ==
  LET x == OP_X(s.opcode)
      y == OP_Y(s.opcode)
      n == BitAnd(s.opcode, 15)
  IN  CASE n = 0  -> Op8XY0(s, x, y)
        [] n = 1  -> Op8XY1(s, x, y)
        [] n = 2  -> Op8XY2(s, x, y)
        [] n = 3  -> Op8XY3(s, x, y)
        [] n = 4  -> Op8XY4(s, x, y)
        [] n = 5  -> Op8XY5(s, x, y)
        [] n = 6  -> Op8XY6(s, x, y)
        [] n = 7  -> Op8XY7(s, x, y)
        [] n = 14 -> Op8XYE(s, x, y)
        [] OTHER  -> s

(* -------- DXYN: the two nested loops of the draw ----------------------- *)
Pow2(k) == CASE k = 0 -> 1 [] k = 1 -> 2 [] k = 2 -> 4 [] k = 3 -> 8
             [] k = 4 -> 16 [] k = 5 -> 32 [] k = 6 -> 64 [] k = 7 -> 128

\* the row test with >= in place of >: row 32 clipped instead of wrapped
RowSkipped_Clip(y, height) == y + height >= GfxHeight

\* if (y + height > 32) continue;
RowSkipped(y, height) == y + height > GfxHeight
\* if (x + bit > 64) continue;
BitSkipped(x, bit) == x + bit > GfxWidth

\* the inner loop body lighting the pixel (|= 1) instead of toggling it
DrawBit_Or(s, x, y, height, pixel, bit) ==
  IF BitSkipped(x, bit) THEN s
  ELSE IF BitAnd(pixel, 128 \div Pow2(bit)) # 0
  THEN LET drawX == (x + bit) % GfxWidth
           drawY == (y + height) % GfxHeight
           index == drawX + (drawY * GfxWidth)
           t == IF s.gfx[index] = 1 THEN SetV(s, 15, 1) ELSE s
       IN  [t EXCEPT !.gfx[index] = BitOr(s.gfx[index], 1)]
  ELSE s

\* the body of the inner loop for one bit of the sprite row `pixel`
DrawBit(s, x, y, height, pixel, bit) ==
  IF BitSkipped(x, bit) THEN s
  ELSE IF BitAnd(pixel, 128 \div Pow2(bit)) # 0
  THEN LET drawX == (x + bit) % GfxWidth
           drawY == (y + height) % GfxHeight
           index == drawX + (drawY * GfxWidth)
           t == IF s.gfx[index] = 1 THEN SetV(s, 15, 1) ELSE s
       IN  [t EXCEPT !.gfx[index] = BitXor(s.gfx[index], 1)]
  ELSE s

RECURSIVE DrawBits(_, _, _, _, _, _)
DrawBits(s, x, y, height, pixel, bit) ==
  IF bit >= 8 THEN s
  ELSE DrawBits(DrawBit(s, x, y, height, pixel, bit), x, y, height, pixel, bit + 1)

RECURSIVE DrawRows(_, _, _, _, _, _)
DrawRows(s, x, y, n, height, g) ==
  IF height >= n THEN s
  ELSE IF RowSkipped(y, height) THEN DrawRows(s, x, y, n, height + 1, g)
  ELSE IF InMem(s.I + height)
  THEN DrawRows(DrawBits(s, x, y, height, s.memory[s.I + height], 0),
                x, y, n, height + 1, g)
  ELSE DrawRows(DrawBits(Missed(s, "memory"), x, y, height,
                         ReadMem(s, s.I + height, g), 0),
                x, y, n, height + 1, g)

OpD(s, g) ==
  LET x == s.V[OP_X(s.opcode)] % GfxWidth
      y == s.V[OP_Y(s.opcode)] % GfxHeight
      n == OP_N(s.opcode)
      t == DrawRows(SetV(s, 15, 0), x, y, n, 0, g)
  IN  [t EXCEPT !.breakIPF = TRUE, !.draw = TRUE]

(* -------- 0xE family: switch (opcode & 0x00FF) ------------------------- *)
\* key[V[X]] with V[X] above 15 reads past the key matrix
ReadKey(s, k, g) == IF k < NumKeys THEN s.key[k] ELSE g[k % 2]
KeyProbe(s) ==
  IF s.V[OP_X(s.opcode)] < NumKeys THEN s ELSE Missed(s, "key")

OpE(s, g) ==
  LET k == s.V[OP_X(s.opcode)]
      nn == BitAnd(s.opcode, 255)
  IN  CASE nn = 158 -> SkipIf(KeyProbe(s), ReadKey(s, k, g) # 0)
        [] nn = 161 -> SkipIf(KeyProbe(s), ReadKey(s, k, g) = 0)
        [] OTHER -> s

(* -------- 0xF family: switch (opcode & 0x00FF) ------------------------- *)
\* the keys the loop of FX0A accepts: pressed in prevKeys, released in key
Released(s) == {i \in 0..(NumKeys - 1) : s.prevKeys[i] = 1 /\ s.key[i] = 0}
Lowest(S) == CHOOSE i \in S : \A j \in S : i <= j

\* FX0A that falls through to the next instruction when no key was released
OpFX0A_NoRewind(s) ==
  IF Released(s) # {}
  THEN [SetV(s, OP_X(s.opcode), Lowest(Released(s))) EXCEPT !.breakIPF = TRUE]
  ELSE s

OpFX0A(s) ==
  IF Released(s) # {}
  THEN [SetV(s, OP_X(s.opcode), Lowest(Released(s))) EXCEPT !.breakIPF = TRUE]
  ELSE [s EXCEPT !.pc = U16(s.pc - 2)]

OpFX33(s) ==
  LET number == s.V[OP_X(s.opcode)]
      hundreds == number \div 100
      tens == (number \div 10) % 10
      ones == number % 10
  IN  WriteMem(WriteMem(WriteMem(s, s.I, hundreds), s.I + 1, tens), s.I + 2, ones)

\* FX55 that leaves I where it was (the loop without I++)
RECURSIVE StoreRegs_KeepI(_, _, _)
StoreRegs_KeepI(s, i, x) ==
  IF i > x THEN s
  ELSE StoreRegs_KeepI(WriteMem(s, s.I + i, s.V[i]), i + 1, x)

RECURSIVE StoreRegs(_, _, _)
StoreRegs(s, i, x) ==
  IF i > x THEN s
  ELSE StoreRegs([WriteMem(s, s.I, s.V[i]) EXCEPT !.I = U16(s.I + 1)], i + 1, x)

RECURSIVE LoadRegs(_, _, _, _)
LoadRegs(s, i, x, g) ==
  IF i > x THEN s
  ELSE LET t == IF InMem(s.I) THEN s ELSE Missed(s, "memory")
       IN  LoadRegs([SetV(t, i, ReadMem(s, s.I, g)) EXCEPT !.I = U16(s.I + 1)],
                    i + 1, x, g)

OpF(s, g) ==
  LET x == OP_X(s.opcode)
      nn == BitAnd(s.opcode, 255)
  IN  CASE nn = 10  -> OpFX0A(s)
        [] nn = 7   -> SetV(s, x, s.delay_timer)
        [] nn = 21  -> [s EXCEPT !.delay_timer = s.V[x]]
        [] nn = 24  -> [s EXCEPT !.sound_timer = s.V[x]]
        [] nn = 30  -> [s EXCEPT !.I = U16(s.I + s.V[x])]
        [] nn = 41  -> [s EXCEPT !.I = s.V[x] * 5]
        [] nn = 51  -> OpFX33(s)
        [] nn = 85  -> StoreRegs(s, 0, x)
        [] nn = 101 -> LoadRegs(s, 0, x, g)
        [] OTHER -> s

(* -------- decode: switch (opcode & 0xF000) ----------------------------- *)
Halted(s) == [s EXCEPT !.running = FALSE]

decode(s, rnd, g) ==
  LET top == BitAnd(s.opcode, 61440) \div 4096
  IN  CASE top = 0  -> Op0(s, g)
        [] top = 1  -> Jump(s)
        [] top = 2  -> Call(s)
        [] top = 3  -> Op3(s)
        [] top = 4  -> Op4(s)
        [] top = 5  -> Op5(s)
        [] top = 6  -> Op6(s)
        [] top = 7  -> Op7(s)
        [] top = 8  -> Op8(s)
        [] top = 9  -> Op9(s)
        [] top = 10 -> OpA(s)
        [] top = 11 -> OpB(s)
        [] top = 12 -> OpC(s, rnd)
        [] top = 13 -> OpD(s, g)
        [] top = 14 -> OpE(s, g)
        [] top = 15 -> OpF(s, g)
        [] OTHER    -> Halted(s)

step(s, rnd, g) == decode(fetch(s, g), rnd, g)

(* -------- the actions -------------------------------------------------- *)
Assign(r) ==
  /\ pc' = r.pc /\ opcode' = r.opcode /\ I' = r.I /\ sp' = r.sp
  /\ memory' = r.memory /\ stack' = r.stack /\ gfx' = r.gfx
  /\ key' = r.key /\ prevKeys' = r.prevKeys /\ V' = r.V
  /\ delay_timer' = r.delay_timer /\ sound_timer' = r.sound_timer
  /\ breakIPF' = r.breakIPF /\ draw' = r.draw /\ running' = r.running
  /\ oob' = r.oob

\* the values rand() % 256 takes in the model
RandBytes == {0, 165, 255}

\* what the fields held when the last executeCycle began
Snapshot ==
  [valid |-> TRUE, pc |-> pc, opcode |-> opcode, I |-> I, sp |-> sp, V |-> V,
   gfx |-> gfx]
NoSnapshot == [Snapshot EXCEPT !.valid = FALSE]

\* One call of cpu::executeCycle.  The driving loop runs it on a loaded ROM;
\* once an access has left its array the run has no defined continuation.
executeCycle ==
  /\ romResult = "ok"
  /\ oob = {}
  /\ LET r0 == step(cpu, 0, NoGarbage)
     IN  \E g \in (IF r0.oob = {} THEN {NoGarbage} ELSE Garbage) :
         \E rnd \in (IF fetch(cpu, g).opcode \div 4096 = 12 THEN RandBytes ELSE {0}) :
           Assign(IF r0.oob = {} /\ rnd = 0 THEN r0 ELSE step(cpu, rnd, g))
  /\ pre' = Snapshot
  /\ UNCHANGED <<romResult, tone>>

\* cpu::loadRom on a file holding the bytes rom (readable: fopen succeeded)
MaxRomSize == MemSize - RomStart

loadRomState(s, rom, readable) ==
  IF ~readable THEN Missed(s, "file")
  ELSE IF Len(rom) > MaxRomSize THEN s
  ELSE IF Len(rom) = 0 THEN s
  ELSE [s EXCEPT !.memory = [a \in 0..(MemSize - 1) |->
                   IF a >= RomStart /\ a < RomStart + Len(rom)
                   THEN rom[a - RomStart + 1] ELSE s.memory[a]]]

loadRomResult(rom, readable) ==
  IF readable /\ Len(rom) <= MaxRomSize /\ Len(rom) # 0 THEN "ok" ELSE "fail"

loadRom(rom, readable) ==
  /\ romResult = "none"
  /\ Assign(loadRomState(cpu, rom, readable))
  /\ romResult' = loadRomResult(rom, readable)
  /\ pre' = NoSnapshot
  /\ UNCHANGED tone

keyDown(pressedKey) ==
  /\ key' = [key EXCEPT ![pressedKey] = 1]
  /\ UNCHANGED <<pc, opcode, I, sp, memory, stack, gfx, prevKeys, V, delay_timer,
                 sound_timer, breakIPF, draw, running, romResult, tone, oob, pre>>

keyUp(pressedKey) ==
  /\ key' = [key EXCEPT ![pressedKey] = 0]
  /\ UNCHANGED <<pc, opcode, I, sp, memory, stack, gfx, prevKeys, V, delay_timer,
                 sound_timer, breakIPF, draw, running, romResult, tone, oob, pre>>

\* cpu::timers without the > 0 tests: a timer at 0 would wrap to 255
timersState_Wrap(s) ==
  [s EXCEPT !.sound_timer = U8(s.sound_timer - 1),
            !.delay_timer = U8(s.delay_timer - 1)]

\* cpu::timers; tone is the value it returned
timersState(s) ==
  LET t == IF s.sound_timer > 0
           THEN [s EXCEPT !.sound_timer = s.sound_timer - 1] ELSE s
  IN  IF t.delay_timer > 0 THEN [t EXCEPT !.delay_timer = t.delay_timer - 1] ELSE t

timers ==
  /\ Assign(timersState(cpu))
  /\ tone' = (timersState(cpu).sound_timer > 0)
  /\ UNCHANGED <<romResult, pre>>

\* cpu::init called again: the memory is cleared, so the ROM is gone
init ==
  /\ Assign(initState(cpu))
  /\ romResult' = "none"
  /\ pre' = NoSnapshot
  /\ UNCHANGED tone

\* the owning loop's once-per-frame copy of key into prevKeys
refreshPrevKeys ==
  /\ prevKeys' = key
  /\ UNCHANGED <<pc, opcode, I, sp, memory, stack, gfx, key, V, delay_timer,
                 sound_timer, breakIPF, draw, running, romResult, tone, oob, pre>>

(* -------- the initial state: a fresh object after cpu::init ------------ *)
\* cpu::init leaves V and the two timers as the constructor left them
UninitBytes == {0, 255}

Fresh(b) ==
  [pc |-> 0, opcode |-> 0, I |-> 0, sp |-> 0,
   memory |-> [a \in 0..(MemSize - 1) |-> 0],
   stack |-> [i \in 0..(StackSize - 1) |-> 0],
   gfx |-> [c \in 0..(GfxWidth * GfxHeight - 1) |-> 0],
   key |-> [k \in 0..(NumKeys - 1) |-> 0],
   prevKeys |-> [k \in 0..(NumKeys - 1) |-> 0],
   V |-> [r \in 0..15 |-> b],
   delay_timer |-> b, sound_timer |-> b,
   breakIPF |-> FALSE, draw |-> FALSE, running |-> FALSE, oob |-> {}]

Init ==
  \E b \in UninitBytes :
    LET r == initState(Fresh(b))
    IN  /\ pc = r.pc /\ opcode = r.opcode /\ I = r.I /\ sp = r.sp
        /\ memory = r.memory /\ stack = r.stack /\ gfx = r.gfx
        /\ key = r.key /\ prevKeys = r.prevKeys /\ V = r.V
        /\ delay_timer = r.delay_timer /\ sound_timer = r.sound_timer
        /\ breakIPF = r.breakIPF /\ draw = r.draw /\ running = r.running
        /\ oob = r.oob
        /\ romResult = "none"
        /\ tone = FALSE
        /\ pre = [valid |-> FALSE, pc |-> r.pc, opcode |-> r.opcode, I |-> r.I,
                  sp |-> r.sp, V |-> r.V, gfx |-> r.gfx]

(* -------- programs ----------------------------------------------------- *)
Ins(a, b, c, d) == <<a * 16 + b, c * 16 + d>>
InsNNN(top, nnn) == <<top * 16 + (nnn \div 256), nnn % 256>>
\* prog followed by jumps to themselves, the idiom that ends a CHIP-8 program
\* (two of them, so that a skip taken by the last instruction ends it as well)
Halt(prog) ==
  prog \o InsNNN(1, RomStart + Len(prog)) \o InsNNN(1, RomStart + Len(prog) + 2)

\* n nested subroutines: block k calls block k+1 and returns, the last returns
RECURSIVE CallBlocks(_, _)
CallBlocks(k, n) ==
  IF k = n THEN Ins(0, 0, 14, 14)
  ELSE InsNNN(2, RomStart + 4 * (k + 1))
       \o (IF k = 0 THEN InsNNN(1, RomStart + 2) ELSE Ins(0, 0, 14, 14))
       \o CallBlocks(k + 1, n)

StackRoms ==
  {CallBlocks(0, n) : n \in 1..(StackSize + MaxExtraCalls)}
  \cup {InsNNN(2, RomStart), Ins(0, 0, 14, 14)}

NextStack ==
  \/ \E rom \in StackRoms : loadRom(rom, TRUE)
  \/ loadRom(<<>>, FALSE)
  \/ executeCycle

SpecStack == Init /\ [][NextStack]_vars

\* instruction words outside the instruction set, and one of each other kind
Word(a, b, c, d) == ((a * 16 + b) * 16 + c) * 16 + d
Bytes(w) == <<w \div 256, w % 256>>

UndefinedWords ==
  {Word(0, 0, 0, 0), Word(0, 1, 2, 0), Word(0, 0, 0, 1), Word(0, 0, 14, 1),
   Word(5, 0, 1, 1), Word(8, 0, 1, 8), Word(8, 0, 1, 9), Word(8, 0, 1, 15),
   Word(9, 0, 1, 1), Word(14, 0, 0, 0), Word(14, 0, 9, 15), Word(15, 0, 0, 0),
   Word(15, 0, 15, 15)}

DefinedWords ==
  {Word(0, 0, 14, 0), Word(3, 0, 0, 0), Word(4, 0, 0, 0), Word(5, 0, 1, 0),
   Word(6, 0, 1, 2), Word(7, 0, 0, 1), Word(8, 0, 1, 0), Word(8, 0, 1, 1),
   Word(8, 0, 1, 4), Word(8, 0, 1, 6), Word(8, 0, 1, 14), Word(9, 0, 1, 0),
   Word(10, 1, 2, 3), Word(12, 0, 15, 15), Word(14, 0, 9, 14),
   Word(14, 0, 10, 1), Word(15, 0, 0, 7), Word(15, 0, 1, 5), Word(15, 0, 1, 8),
   Word(15, 0, 1, 14), Word(15, 0, 2, 9), Word(15, 0, 3, 3), Word(15, 0, 5, 5),
   Word(15, 0, 6, 5)}

\* the word alone, and the word after the font glyph 0 has been drawn
DecodeRoms ==
  {Halt(Bytes(w)) : w \in UndefinedWords \cup DefinedWords}
  \cup {Halt(Ins(6, 0, 0, 0) \o InsNNN(10, 0) \o Ins(13, 0, 0, 5) \o Bytes(w)) :
          w \in UndefinedWords \cup DefinedWords}

NextDecode ==
  \/ \E rom \in DecodeRoms : loadRom(rom, TRUE)
  \/ loadRom(<<>>, FALSE)
  \/ executeCycle

SpecDecode == Init /\ [][NextDecode]_vars

\* programs that take PC or I to the end of the 4096-byte memory
EdgeWords ==
  {Word(15, 0, 3, 3), Word(15, 0, 5, 5), Word(15, 1, 5, 5), Word(15, 0, 6, 5),
   Word(15, 1, 6, 5), Word(13, 0, 1, 1), Word(13, 0, 1, 2)}

MemRoms ==
  {Halt(InsNNN(10, base) \o Bytes(w)) :
     base \in (MemSize - 4)..(MemSize - 1), w \in EdgeWords}
  \cup {InsNNN(1, MemSize - 1), InsNNN(1, MemSize - 2),
        Halt(Ins(6, 0, 15, 15) \o InsNNN(10, MemSize - 1) \o Ins(15, 0, 1, 14)
             \o Ins(15, 0, 6, 5)),
        Ins(6, 0, 15, 15) \o InsNNN(11, MemSize - 1),
        Halt(InsNNN(10, MemSize - 16) \o Ins(15, 15, 5, 5) \o Ins(15, 0, 6, 5))}

NextMem ==
  \/ \E rom \in MemRoms : loadRom(rom, TRUE)
  \/ loadRom(<<>>, FALSE)
  \/ executeCycle

SpecMem == Init /\ [][NextMem]_vars

\* programs that wait for a key, and the keys the input source uses
KeyIds == (0..MaxKeyId) \cup {NumKeys - 1}
KeyRoms == {Halt(Ins(15, x, 0, 10)) : x \in {0, 1, 15}}

NextKeys ==
  \/ \E rom \in KeyRoms : loadRom(rom, TRUE)
  \/ loadRom(<<>>, FALSE)
  \/ executeCycle
  \/ \E k \in KeyIds : keyDown(k)
  \/ \E k \in KeyIds : keyUp(k)
  \/ refreshPrevKeys

SpecKeys == Init /\ [][NextKeys]_vars

\* programs that load two registers and apply one 8XYN instruction
AluVals == (0..MaxVal) \cup {255}
AluRegs == {<<0, 1>>, <<1, 0>>, <<2, 2>>, <<15, 1>>, <<0, 15>>}
AluOps == {0, 1, 2, 3, 4, 5, 6, 7, 14}
Byte(top, lo, b) == <<top * 16 + lo, b>>

AluRoms ==
  {Halt(Byte(6, r[1], a) \o Byte(6, r[2], b) \o Ins(8, r[1], r[2], n)) :
     r \in AluRegs, a \in AluVals, b \in AluVals, n \in AluOps}

NextAlu ==
  \/ \E rom \in AluRoms : loadRom(rom, TRUE)
  \/ loadRom(<<>>, FALSE)
  \/ executeCycle

SpecAlu == Init /\ [][NextAlu]_vars

\* programs that draw one sprite three times at one position: the font
\* glyphs at address 0, or 15 rows of 0xFF stored behind the program
DrawXs == {0, 56, 57, 63, 255}
DrawYs == {0, 18, 31}
DrawNs == {0, 1, 2, 15}
SpriteData == [i \in 1..15 |-> 255]
DrawCode(vx, vy, n, addr) ==
  Byte(6, 0, vx) \o Byte(6, 1, vy) \o InsNNN(10, addr)
  \o Ins(13, 0, 1, n) \o Ins(13, 0, 1, n) \o Ins(13, 0, 1, n)
DrawRom(vx, vy, n, own) ==
  IF own THEN Halt(DrawCode(vx, vy, n, RomStart + 16)) \o SpriteData
  ELSE Halt(DrawCode(vx, vy, n, 0))

DrawRoms ==
  {DrawRom(vx, vy, n, own) :
     vx \in DrawXs, vy \in DrawYs, n \in DrawNs, own \in BOOLEAN}

NextDraw ==
  \/ \E rom \in DrawRoms : loadRom(rom, TRUE)
  \/ loadRom(<<>>, FALSE)
  \/ executeCycle

SpecDraw == Init /\ [][NextDraw]_vars

\* programs that leave a value in V0, both timers and I and light the screen,
\* run by an owner that may call cpu::init again at any time
ResetRoms ==
  {Halt(Byte(6, 0, a) \o Ins(15, 0, 1, 5) \o Ins(15, 0, 1, 8)
        \o InsNNN(10, 5) \o Ins(13, 0, 0, 5)) : a \in {7, 18}}

NextReset ==
  \/ \E rom \in ResetRoms : loadRom(rom, TRUE)
  \/ loadRom(<<>>, FALSE)
  \/ executeCycle
  \/ init

SpecReset == Init /\ [][NextReset]_vars

\* ROM files of every kind of length: empty, short, one byte under the room
\* behind 0x200, exactly that room, and one byte over; each is a program
\* that sets V0 and ends, filled up with 0xFF bytes.  The owner may call
\* cpu::init and load again.
Pad(prog, n) == prog \o [i \in 1..(n - Len(prog)) |-> 255]
LoadLens == {6, MaxRomSize - 1, MaxRomSize, MaxRomSize + 1}
LoadRoms ==
  {<<>>} \cup {Pad(Halt(Byte(6, 0, a)), n) : a \in {1, 2}, n \in LoadLens}

NextLoad ==
  \/ \E rom \in LoadRoms : loadRom(rom, TRUE)
  \/ loadRom(<<>>, FALSE)
  \/ executeCycle
  \/ init

SpecLoad == Init /\ [][NextLoad]_vars

\* programs that set both timers to k and end, while the owner's 60 Hz
\* clock calls cpu::timers at any point between two instructions
TimerRoms ==
  {Halt(Byte(6, 0, k) \o Ins(15, 0, 1, 5) \o Ins(15, 0, 1, 8)) :
     k \in 0..MaxTicks}

NextTimers ==
  \/ \E rom \in TimerRoms : loadRom(rom, TRUE)
  \/ loadRom(<<>>, FALSE)
  \/ executeCycle
  \/ timers

SpecTimers == Init /\ [][NextTimers]_vars

\* programs that store V0..VX at I, overwrite V0 and V1, and load V0..VX
\* back from the same address: in the middle of memory and at its very end
RegVals == {<<1, 2>>, <<255, 0>>}
RegWindows == {<<0, 768>>, <<1, 768>>, <<1, MemSize - 2>>, <<15, MemSize - 16>>}
RegRoms ==
  {Halt(Byte(6, 0, v[1]) \o Byte(6, 1, v[2]) \o InsNNN(10, w[2])
        \o Ins(15, w[1], 5, 5) \o Byte(6, 0, 9) \o Byte(6, 1, 9)
        \o InsNNN(10, w[2]) \o Ins(15, w[1], 6, 5)) :
     v \in RegVals, w \in RegWindows}

NextRegs ==
  \/ \E rom \in RegRoms : loadRom(rom, TRUE)
  \/ loadRom(<<>>, FALSE)
  \/ executeCycle

SpecRegs == Init /\ [][NextRegs]_vars

\* programs that use the font (FX29 and a draw) and programs that store a
\* register or a BCD number at an address inside 0x000-0x04F, run while the
\* owner delivers timer ticks and key events; the object starts zeroed
InitZeroed == Init /\ V[0] = 0

FontRoms ==
  {Halt(Byte(6, 0, v) \o Ins(15, 0, 1, 8) \o Ins(15, 0, 2, 9)
        \o Ins(13, 1, 1, 5)) : v \in {1, 15}}
  \cup {Halt(Byte(6, 0, 7) \o InsNNN(10, 0) \o Ins(15, 0, 5, 5)),
        Halt(Byte(6, 0, 255) \o InsNNN(10, FontSize - 3) \o Ins(15, 0, 3, 3))}

NextFont ==
  \/ \E rom \in FontRoms : loadRom(rom, TRUE)
  \/ loadRom(<<>>, FALSE)
  \/ executeCycle
  \/ timers
  \/ \E k \in KeyIds : keyDown(k)
  \/ \E k \in KeyIds : keyUp(k)

SpecFont == InitZeroed /\ [][NextFont]_vars

(* -------- what the claims observe -------------------------------------- *)
\* the instruction word the next executeCycle fetches
Fetchable == InMem(pc) /\ InMem(pc + 1)
NextOp == IF Fetchable THEN memory[pc] * 256 + memory[pc + 1] ELSE 0
Top(op) == op \div 4096
Stepping(op) == executeCycle /\ Fetchable /\ NextOp = op

(* C1: a 2NNN call executed with 16 return addresses on the stack writes
   nothing past the end of the stack and leaves the stack pointer at most 16 *)
C1_CallAtCapacityStaysInStack ==
  [][(executeCycle /\ Fetchable /\ Top(NextOp) = 2 /\ sp = StackSize)
       => (sp' <= StackSize /\ "stack" \notin oob')]_vars

(* C2: 00EE executed with an empty stack leaves the stack pointer at 0 and
   does not load PC from outside the stack *)
C2_ReturnOnEmptyStaysInStack ==
  [][(Stepping(238) /\ sp = 0) => (sp' = 0 /\ "stack" \notin oob')]_vars

\* the instruction set of the interpreter: the opcode patterns it defines
Defined(op) ==
  LET n == op % 16
      nn == op % 256
  IN  \/ op = 224 \/ op = 238
      \/ Top(op) \in {1, 2, 3, 4, 6, 7, 10, 11, 12, 13}
      \/ Top(op) \in {5, 9} /\ n = 0
      \/ Top(op) = 8 /\ n \in {0, 1, 2, 3, 4, 5, 6, 7, 14}
      \/ Top(op) = 14 /\ nn \in {158, 161}
      \/ Top(op) = 15 /\ nn \in {7, 10, 21, 24, 30, 41, 51, 85, 101}

(* C3: executing a word outside the instruction set halts execution:
   running is false after the step *)
C3_UndefinedWordHalts ==
  [][(executeCycle /\ Fetchable /\ ~Defined(NextOp)) => running' = FALSE]_vars

(* C9: a step of any word other than DXYN and 00E0 leaves every framebuffer
   cell as it was, and every cell is 0 or 1 *)
C9_OnlyDrawAndClearTouchGfx ==
  [][(executeCycle /\ Fetchable /\ Top(NextOp) # 13 /\ NextOp # 224)
       => (gfx' = gfx /\ \A c \in DOMAIN gfx : gfx'[c] \in {0, 1})]_vars

(* C10: 00E0 clears all 64x32 framebuffer cells and sets the redraw flag *)
C10_ClearScreenSetsDraw ==
  [][Stepping(224)
       => (draw' = TRUE /\ \A c \in DOMAIN gfx : gfx'[c] = 0)]_vars

(* C4: every memory access of a step (the fetch at PC and PC+1, the sprite
   rows of DXYN, the bytes of FX33, FX55 and FX65) stays inside 0..4095 *)
C4_MemoryAccessesInBounds == "memory" \notin oob

(* C5: an FX0A step taken while no key is pressed in prevKeys and released in
   key leaves PC on the instruction and every register as it was; an FX0A
   step taken when such a key exists stores the index of such a key in V[X],
   changes no other register and leaves PC just past the instruction *)
C5_KeyWaitRepeatsUntilRelease ==
  [][(executeCycle /\ Fetchable /\ Top(NextOp) = 15 /\ NextOp % 256 = 10)
       => IF Released(cpu) = {}
          THEN pc' = pc /\ V' = V
          ELSE /\ pc' = U16(pc + 2)
               /\ \E k \in 0..(NumKeys - 1) :
                    /\ prevKeys[k] = 1 /\ key[k] = 0
                    /\ V' = [V EXCEPT ![(NextOp \div 256) % 16] = k]]_vars

\* an FX0A has just completed on a released key after the snapshot was refreshed
C5_Witness ==
  /\ pre.valid /\ Top(opcode) = 15 /\ opcode % 256 = 10
  /\ pc = pre.pc + 2
  /\ V[(opcode \div 256) % 16] = NumKeys - 1
  /\ pre.V[(opcode \div 256) % 16] # NumKeys - 1
  /\ prevKeys[NumKeys - 1] = 1 /\ key[NumKeys - 1] = 0

(* C6: after 8XY6, VF is the low bit of the pre-step V[Y] and, for X # F,
   V[X] is the pre-step V[Y] shifted right by one *)
C6_ShiftRightFlagFromVY ==
  [][(executeCycle /\ Fetchable /\ Top(NextOp) = 8 /\ NextOp % 16 = 6)
       => LET x == (NextOp \div 256) % 16
              y == (NextOp \div 16) % 16
          IN  /\ V'[15] = V[y] % 2
              /\ (x # 15 => V'[x] = V[y] \div 2)]_vars

\* the operands of the DXYN word op in the current state
DrawX(op) == V[(op \div 256) % 16] % GfxWidth
DrawY(op) == V[(op \div 16) % 16] % GfxHeight
RowsInMemory(op) == \A row \in 0..((op % 16) - 1) : InMem(I + row)
SpriteBit(row, bit) == (memory[I + row] \div Pow2(7 - bit)) % 2 = 1
Cell(col, row) == (col % GfxWidth) + (row % GfxHeight) * GfxWidth
Toggled(before, after) == {c \in DOMAIN before : before[c] # after[c]}
DrawStep(op) ==
  executeCycle /\ Fetchable /\ NextOp = op /\ Top(op) = 13 /\ RowsInMemory(op)

(* C7 as claimed: a set sprite bit whose unwrapped row y+row is 32, or whose
   unwrapped column x+bit is 64, toggles no pixel *)
C7_EdgeByOneIsSkipped ==
  [][\A op \in {NextOp} : DrawStep(op) =>
       \A row \in 0..((op % 16) - 1), bit \in 0..7 :
         (SpriteBit(row, bit)
            /\ (DrawY(op) + row = GfxHeight \/ DrawX(op) + bit = GfxWidth))
         => gfx'[Cell(DrawX(op) + bit, DrawY(op) + row)]
              = gfx[Cell(DrawX(op) + bit, DrawY(op) + row)]]_vars

(* C7 as amended: DXYN toggles exactly the pixels of the set sprite bits with
   y+row <= 32 and x+bit <= 64, each at column (x+bit) mod 64 of row
   (y+row) mod 32: row 32 is drawn on row 0 and column 64 on column 0, and
   only rows beyond 32 and columns beyond 64 are skipped *)
C7_DrawWrapsAtEdgeSkipsBeyond ==
  [][\A op \in {NextOp} : DrawStep(op) =>
       Toggled(gfx, gfx') =
         {Cell(DrawX(op) + rb[2], DrawY(op) + rb[1]) :
            rb \in {q \in (0..((op % 16) - 1)) \X (0..7) :
                      /\ DrawY(op) + q[1] <= GfxHeight
                      /\ DrawX(op) + q[2] <= GfxWidth
                      /\ SpriteBit(q[1], q[2])}}]_vars

\* a draw from a start other than column 0 and row 0 has toggled the corner
\* pixel: its row 32 and its column 64 were both wrapped and drawn
C7_Witness ==
  /\ pre.valid /\ Top(opcode) = 13
  /\ pre.V[(opcode \div 256) % 16] % GfxWidth # 0
  /\ pre.V[(opcode \div 16) % 16] % GfxHeight # 0
  /\ gfx[0] # pre.gfx[0]

\* the step about to run repeats the draw the previous step ran: the same
\* word with X, Y # F, the same V[X], V[Y] and I (DXYN leaves memory alone)
SecondDraw(op) ==
  /\ DrawStep(op)
  /\ pre.valid /\ opcode = op
  /\ (op \div 256) % 16 # 15 /\ (op \div 16) % 16 # 15
  /\ pre.V[(op \div 256) % 16] = V[(op \div 256) % 16]
  /\ pre.V[(op \div 16) % 16] = V[(op \div 16) % 16]
  /\ pre.I = I

(* C8 as claimed: the second of two equal draws restores the framebuffer of
   before the first, and leaves VF = 1 whenever it toggled a pixel *)
C8_SecondDrawAlwaysCollides ==
  [][\A op \in {NextOp} : SecondDraw(op) =>
       /\ gfx' = pre.gfx
       /\ (Toggled(gfx, gfx') # {} => V'[15] = 1)]_vars

(* C8 as amended: the second of two equal draws restores the framebuffer of
   before the first, and leaves VF = 1 exactly when the first draw turned a
   pixel on (a pixel it toggled was off before it), VF = 0 otherwise *)
C8_SecondDrawRestores ==
  [][\A op \in {NextOp} : SecondDraw(op) =>
       /\ gfx' = pre.gfx
       /\ (V'[15] = 1 <=> \E c \in DOMAIN gfx : pre.gfx[c] = 0 /\ gfx[c] # 0)
       /\ V'[15] \in {0, 1}]_vars

\* two equal draws have run, the second toggled pixels and found a collision
C8_Witness ==
  /\ pre.valid /\ Top(opcode) = 13 /\ pre.opcode = opcode
  /\ Toggled(pre.gfx, gfx) # {}
  /\ V[15] = 1
  /\ \A c \in DOMAIN gfx : gfx[c] = 0

(* C11: cpu::init called in any state leaves PC = 0x200, I = 0, sp = 0, the
   font in memory[0..79] and 0 in the rest of memory, the stack, framebuffer,
   key and prevKeys all 0, both timers 0, V0..VF all 0, and breakIPF and
   draw false *)
C11_InitResetsEverything ==
  [][init =>
       /\ pc' = RomStart /\ I' = 0 /\ sp' = 0
       /\ \A a \in 0..(MemSize - 1) :
            memory'[a] = IF a < FontSize THEN chip8_fontset[a + 1] ELSE 0
       /\ \A i \in DOMAIN stack : stack'[i] = 0
       /\ \A c \in DOMAIN gfx : gfx'[c] = 0
       /\ \A k \in DOMAIN key : key'[k] = 0 /\ prevKeys'[k] = 0
       /\ delay_timer' = 0 /\ sound_timer' = 0
       /\ \A r \in DOMAIN V : V'[r] = 0
       /\ ~breakIPF' /\ ~draw']_vars

\* the step about to run is 8XYn, for the low nibble n
AluStep(n) == executeCycle /\ Fetchable /\ Top(NextOp) = 8 /\ NextOp % 16 = n

(* C12: 8XY4, 8XY5 and 8XY7 leave in V[X] (X # F) the sum V[X]+V[Y], the
   difference V[X]-V[Y] and the difference V[Y]-V[X] modulo 256, and in VF
   the carry (V[X]+V[Y] > 255), V[X] >= V[Y] and V[Y] >= V[X] as 0 or 1,
   all taken from the operands before the step; with X = F the flag is what
   VF holds; no other register changes *)
C12_AddSubFlags ==
  [][\A n \in {4, 5, 7} : AluStep(n) =>
       LET x == (NextOp \div 256) % 16
           y == (NextOp \div 16) % 16
           res == CASE n = 4 -> (V[x] + V[y]) % 256
                    [] n = 5 -> (V[x] - V[y] + 256) % 256
                    [] n = 7 -> (V[y] - V[x] + 256) % 256
           flag == CASE n = 4 -> V[x] + V[y] > 255
                     [] n = 5 -> V[x] >= V[y]
                     [] n = 7 -> V[y] >= V[x]
       IN  /\ V'[15] = IF flag THEN 1 ELSE 0
           /\ (x # 15 => V'[x] = res)
           /\ \A r \in DOMAIN V : (r # x /\ r # 15) => V'[r] = V[r]]_vars

\* an 8XY5 with both operands 0 has run: difference 0 and VF = 1
C12_Witness ==
  /\ pre.valid /\ Top(opcode) = 8 /\ opcode % 16 = 5
  /\ pc = pre.pc + 2
  /\ (opcode \div 256) % 16 \notin {15, (opcode \div 16) % 16}
  /\ pre.V[(opcode \div 256) % 16] = 0 /\ pre.V[(opcode \div 16) % 16] = 0
  /\ V[(opcode \div 256) % 16] = 0 /\ V[15] = 1

\* the instruction word stored at address a
WordAt(a) == IF InMem(a) /\ InMem(a + 1) THEN memory[a] * 256 + memory[a + 1] ELSE 0

(* C13: a 2NNN executed with fewer than 16 addresses on the stack pushes the
   address following the call (call address + 2) on top and changes no
   other entry; a 00EE executed with 1..16 addresses on the stack pops the
   top one into PC, which is then the address following the most recent
   call not yet returned from, and changes no entry; so N nested calls and
   N returns (N <= 16) visit the return addresses in reverse order and the
   last return leaves sp = 0 *)
C13_CallsReturnInReverseOrder ==
  [][(executeCycle /\ Fetchable) =>
       /\ (Top(NextOp) = 2 /\ sp < StackSize) =>
            /\ stack' = [stack EXCEPT ![sp] = pc + 2]
            /\ sp' = sp + 1
            /\ pc' = NextOp % 4096
       /\ (NextOp = 238 /\ sp >= 1 /\ sp <= StackSize) =>
            /\ pc' = stack[sp - 1]
            /\ sp' = sp - 1
            /\ stack' = stack
            /\ Top(WordAt(pc' - 2)) = 2
            /\ \A i \in 0..(sp - 1) : Top(WordAt(stack[i] - 2)) = 2]_vars

\* 16 nested calls have been made and the 16th return has just brought PC
\* back to the instruction after the first call, with the stack empty
C13_Witness ==
  /\ pre.valid /\ opcode = 238 /\ pre.sp = 1 /\ sp = 0
  /\ pc = RomStart + 2
  /\ \A i \in 0..(StackSize - 1) : stack[i] = RomStart + 4 * i + 2

\* every field but memory is as it was
OnlyMemoryMayChange ==
  UNCHANGED <<pc, opcode, I, sp, stack, gfx, key, prevKeys, V, delay_timer,
              sound_timer, breakIPF, draw, running>>

(* C14: cpu::loadRom returns false for a file longer than 4096 - 0x200 =
   3584 bytes and for an unreadable one, changing no field; for every
   readable file of 0..3584 bytes it returns true, memory[0x200 ..
   0x200+length-1] holds the file's bytes and every other byte of memory
   and every other field is unchanged *)
C14_LoadRomFailsExactlyWhenTooLong ==
  [][/\ \A rom \in LoadRoms : loadRom(rom, TRUE) =>
          IF Len(rom) > MaxRomSize
          THEN romResult' = "fail" /\ memory' = memory /\ OnlyMemoryMayChange
          ELSE /\ romResult' = "ok"
               /\ \A a \in 0..(MemSize - 1) :
                    memory'[a] = IF a >= RomStart /\ a < RomStart + Len(rom)
                                 THEN rom[a - RomStart + 1] ELSE memory[a]
               /\ OnlyMemoryMayChange
     /\ loadRom(<<>>, FALSE) =>
          romResult' = "fail" /\ memory' = memory /\ OnlyMemoryMayChange]_vars

\* a timer after one tick: one less when above 0, still 0 otherwise
Ticked(t) == IF t > 0 THEN t - 1 ELSE 0

(* C15: a call of cpu::timers takes 1 off each timer that is above 0 and
   leaves a timer at 0 there, and returns true exactly when the sound timer
   is above 0 after it, that is when it was at least 2 before: once FX18 has
   set it to k, the next k-1 calls return true and the later ones false;
   executeCycle changes a timer only by FX15 and FX18, to V[X] *)
C15_TimersFloorAtZero ==
  [][/\ timers =>
          /\ delay_timer' = Ticked(delay_timer)
          /\ sound_timer' = Ticked(sound_timer)
          /\ delay_timer' \in 0..255 /\ sound_timer' \in 0..255
          /\ tone' = (sound_timer' > 0)
          /\ tone' = (sound_timer >= 2)
     /\ (executeCycle /\ Fetchable) =>
          LET fx(nn) == Top(NextOp) = 15 /\ NextOp % 256 = nn
              vx == V[(NextOp \div 256) % 16]
          IN  /\ delay_timer' = IF fx(21) THEN vx ELSE delay_timer
              /\ sound_timer' = IF fx(24) THEN vx ELSE sound_timer]_vars

\* FX18 has set the sound timer to MaxTicks and MaxTicks - 1 calls of
\* cpu::timers have returned true since: the next one returns false
C15_Witness ==
  /\ romResult = "ok" /\ V[0] = MaxTicks /\ V[1] = 0
  /\ pc > RomStart + 4
  /\ sound_timer = 1 /\ delay_timer = 1 /\ tone

\* the step about to run is FXnn with memory[I .. I+X] inside the memory
RegStep(nn) ==
  /\ executeCycle /\ Fetchable
  /\ Top(NextOp) = 15 /\ NextOp % 256 = nn
  /\ InMem(I + ((NextOp \div 256) % 16))

(* C16: FX55 writes V0..VX to memory[I .. I+X] and changes no other byte
   and no register; FX65 reads V0..VX from memory[I .. I+X] and changes no
   higher register and no byte; both leave I at its value before the step
   plus X+1; so an FX65 run from the address an FX55 stored at gives back
   the registers that were stored: in the programs of RegRoms, the V0 and V1
   of their first two instructions (the NN bytes at 0x201 and 0x203), which
   the program has overwritten in between *)
C16_StoreLoadRoundTrip ==
  [][\A x \in {(NextOp \div 256) % 16} :
       /\ RegStep(85) =>
            /\ \A a \in 0..(MemSize - 1) :
                 memory'[a] = IF a >= I /\ a <= I + x THEN V[a - I] ELSE memory[a]
            /\ V' = V
            /\ I' = I + x + 1
       /\ RegStep(101) =>
            /\ \A r \in 0..15 : V'[r] = IF r <= x THEN memory[I + r] ELSE V[r]
            /\ memory' = memory
            /\ I' = I + x + 1
       /\ (RegStep(101) /\ x >= 1) =>
            /\ V'[0] = memory[RomStart + 1] /\ V'[1] = memory[RomStart + 3]
            /\ V[0] # V'[0]]_vars

\* an FX65 has just brought back a V0 and V1 that were stored by FX55 and
\* overwritten since
C16_Witness ==
  /\ pre.valid /\ Top(opcode) = 15 /\ opcode % 256 = 101
  /\ (opcode \div 256) % 16 >= 1
  /\ pre.V[0] = 9 /\ pre.V[1] = 9
  /\ V[0] = 255 /\ V[1] = 0
  /\ I = pre.I + ((opcode \div 256) % 16) + 1

(* C17: in every state reached from cpu::init by ROM loads, steps, timer
   ticks and key events, memory[0x000 .. 0x04F] holds the 80 bytes of the
   font table *)
C17_FontTableIntact ==
  \A a \in 0..(FontSize - 1) : memory[a] = chip8_fontset[a + 1]

\* the PC the claim C18 gives the step of the word op, from the state before
PcAfter(op) ==
  LET x == (op \div 256) % 16
      y == (op \div 16) % 16
      nn == op % 256
      skip(cond) == IF cond THEN pc + 4 ELSE pc + 2
  IN  CASE Top(op) = 3 -> skip(V[x] = nn)
        [] Top(op) = 4 -> skip(V[x] # nn)
        [] Top(op) = 5 /\ op % 16 = 0 -> skip(V[x] = V[y])
        [] Top(op) = 9 /\ op % 16 = 0 -> skip(V[x] # V[y])
        [] Top(op) = 14 /\ nn = 158 -> skip(key[V[x]] # 0)
        [] Top(op) = 14 /\ nn = 161 -> skip(key[V[x]] = 0)
        [] Top(op) \in {1, 2} -> op % 4096
        [] Top(op) = 11 -> (op % 4096) + V[0]
        [] op = 238 -> stack[sp - 1]
        [] Top(op) = 15 /\ nn = 10 /\ Released(cpu) = {} -> pc
        [] OTHER -> pc + 2

(* C18: a step leaves PC at its value before the step plus 2, except that
   3XNN, 4XNN, 5XY0, 9XY0, EX9E and EXA1 leave it at plus 4 when their
   condition holds, 1NNN and 2NNN at NNN, BNNN at NNN + V[0], 00EE at the
   popped address and a waiting FX0A where it was; every other word leaves
   it at plus 2 (steps that access nothing outside an array) *)
C18_PcAdvancesByTwoUnlessOverridden ==
  [][(executeCycle /\ Fetchable /\ oob' = {}) => pc' = PcAfter(NextOp)]_vars

(* C19: breakIPF is true after a step exactly when the step ran 00E0, a
   DXYN, or an FX0A that found a released key; after a step of any other
   word, and of an FX0A that goes on waiting, it is false *)
C19_PauseFlagOnlyForRenderSteps ==
  [][(executeCycle /\ Fetchable /\ oob' = {}) =>
       (breakIPF' <=>
          \/ NextOp = 224
          \/ Top(NextOp) = 13
          \/ Top(NextOp) = 15 /\ NextOp % 256 = 10 /\ Released(cpu) # {})]_vars
====
